---------------------------- MODULE Spec2Model ----------------------------
(***************************************************************************)
(* Capsule-network layers of load_weights_capsnet_model.py: squash, the    *)
(* routing loop of CapsuleLayer.call, Mask.call and combine_images.        *)
(*                                                                         *)
(* Tensor entries are binary floating-point numbers, as in the program     *)
(* (Keras' floatx), with the significand scaled down from 24 to Prec bits: *)
(* a number is a pair <<m, e>> standing for m * 2^e, with m = 0 or         *)
(* 2^(Prec-1) <= |m| < 2^Prec, and every arithmetic operation rounds its   *)
(* exact result to the nearest such number, ties to even.  The exponent is *)
(* unbounded: overflow to infinity and underflow are outside the model.    *)
(***************************************************************************)
EXTENDS Integers, Sequences, FiniteSets, TLC

\* ------------------------------------------------------------- bounds
Prec == 5            \* bits of significand
MaxVal == 9          \* squash inputs: entries k * 2^sh, |k| <= MaxVal
MaxShift == 1        \* squash inputs: -MaxShift <= sh <= MaxShift
DimCapsule == 2      \* dim_capsule (pose dimension of an output capsule)
NumCapsule == 3      \* num_capsule (output capsules)
InputNumCapsule == 2 \* input_num_capsule
InputDimCapsule == 2 \* input_dim_capsule
BatchSize == 2       \* rows of a batch
NumSeeds == 2        \* weight tensors the initializer may draw
NumInputs == 2       \* input batches a forward pass may be given
MaxRoutings == 3     \* largest routings parameter
MaxCalls == 2        \* forward passes on one layer
MaxNum == 7          \* combine_images: most images
MaxSide == 3         \* combine_images: largest height or width given

\* ------------------------------------------------------------- values
None == "None"

\* A tensor variable that holds no tensor.
NoTensor == <<>>


\* ------------------------------------------------- floating point numbers
Abs(n) == IF n < 0 THEN -n ELSE n

Sgn(n) == IF n < 0 THEN -1 ELSE IF n = 0 THEN 0 ELSE 1

Pow2(n) == IF n <= 0 THEN 1 ELSE 2 ^ n

RECURSIVE BitLen(_)
BitLen(a) == IF a = 0 THEN 0 ELSE 1 + BitLen(a \div 2)

\* n * 2^e rounded to Prec significant bits, to nearest, ties to even.
Rnd(n, e) ==
  IF n = 0 THEN <<0, 0>>
  ELSE LET a == Abs(n)
           L == BitLen(a)
       IN IF L <= Prec
          THEN <<Sgn(n) * a * Pow2(Prec - L), e - (Prec - L)>>
          ELSE LET k == L - Prec
                   q == a \div Pow2(k)
                   r == a % Pow2(k)
                   h == Pow2(k - 1)
                   q1 == IF r > h \/ (r = h /\ q % 2 = 1) THEN q + 1 ELSE q
               IN IF q1 = Pow2(Prec)
                  THEN <<Sgn(n) * Pow2(Prec - 1), e + k + 1>>
                  ELSE <<Sgn(n) * q1, e + k>>

FZero == <<0, 0>>

\* The result of a division by zero (NaN or an infinity): not a finite
\* number.  It is absorbed by no operation: every result computed from it
\* is not finite either.
FNaN == <<0, 1>>

IsNaN(a) == a = FNaN

FOne == Rnd(1, 0)

FromInt(n) == Rnd(n, 0)

FNeg(a) == <<-a[1], a[2]>>

FMul(a, b) ==
  IF IsNaN(a) \/ IsNaN(b) THEN FNaN ELSE Rnd(a[1] * b[1], a[2] + b[2])

\* a + b: the operand of smaller magnitude is absorbed when it lies more
\* than Prec + 2 binary places below the other.
FAdd(a, b) ==
  IF IsNaN(a) \/ IsNaN(b) THEN FNaN
  ELSE IF a[1] = 0 THEN b
  ELSE IF b[1] = 0 THEN a
  ELSE LET hi == IF a[2] >= b[2] THEN a ELSE b
           lo == IF a[2] >= b[2] THEN b ELSE a
           d == hi[2] - lo[2]
       IN IF d > Prec + 2 THEN hi
          ELSE Rnd(hi[1] * Pow2(d) + lo[1], lo[2])

FSub(a, b) == FAdd(a, FNeg(b))

\* Comparisons are exact, and false when an operand is not finite.
FLess(a, b) == ~IsNaN(a) /\ ~IsNaN(b) /\ FSub(a, b)[1] < 0

FLeq(a, b) == ~IsNaN(a) /\ ~IsNaN(b) /\ FSub(a, b)[1] <= 0

\* (n / d) * 2^e for d > 0, rounded: the quotient to at least Prec + 2
\* bits and a sticky bit.
RndRat(n, d, e) ==
  LET w == BitLen(d) - BitLen(Abs(n))
      k == Prec + 3 + (IF w > 0 THEN w ELSE 0)
      q == (Abs(n) * Pow2(k)) \div d
      s == IF (Abs(n) * Pow2(k)) % d = 0 THEN 0 ELSE 1
  IN Rnd(Sgn(n) * (2 * q + s), e - k - 1)

\* a / b; not finite when b is zero.
FDiv(a, b) ==
  IF IsNaN(a) \/ IsNaN(b) \/ b[1] = 0 THEN FNaN
  ELSE RndRat(Sgn(b[1]) * a[1], Abs(b[1]), a[2] - b[2])

\* The integer square root of n, one bit at a time from bit b down.
RECURSIVE ISqrtBits(_, _, _)
ISqrtBits(n, r, b) ==
  IF b < 0 THEN r
  ELSE IF (r + Pow2(b)) * (r + Pow2(b)) <= n
       THEN ISqrtBits(n, r + Pow2(b), b - 1)
       ELSE ISqrtBits(n, r, b - 1)

\* sqrt(a): the root of the significand widened to an even exponent, and a
\* sticky bit; not finite for a < 0.
FSqrt(a) ==
  IF IsNaN(a) \/ a[1] < 0 THEN FNaN
  ELSE IF a[1] = 0 THEN FZero
  ELSE LET k == IF (a[2] - Prec - 4) % 2 = 0 THEN Prec + 4 ELSE Prec + 5
           n == a[1] * Pow2(k)
           r == ISqrtBits(n, 0, Prec + 3)
           s == IF r * r = n THEN 0 ELSE 1
       IN Rnd(2 * r + s, (a[2] - k) \div 2 - 1)

\* exp(x) for x <= 0, as a softmax kernel evaluates it after subtracting the
\* maximum: on a grid of 2^-FixBits, x = -(k * ln 2 + r) with 0 <= r < ln 2,
\* exp(r) by its Taylor series, and exp(x) = 2^-k / exp(r), rounded.
FixBits == 12

Ln2Fix == 2839

RECURSIVE ExpTerms(_, _, _)
ExpTerms(r, term, n) ==
  IF term = 0 THEN 0
  ELSE term + ExpTerms(r, (term * r) \div ((n + 1) * Pow2(FixBits)), n + 1)

FExp(x) ==
  IF IsNaN(x) THEN FNaN
  ELSE LET X == IF x[2] + FixBits >= 0
                THEN Abs(x[1]) * Pow2(x[2] + FixBits)
                ELSE Abs(x[1]) \div Pow2(-(x[2] + FixBits))
           k == X \div Ln2Fix
           r == X % Ln2Fix
           E == ExpTerms(r, Pow2(FixBits), 0)
       IN Rnd(Pow2(2 * FixBits + 4) \div E, -FixBits - 4 - k)

\* K.epsilon() = 1e-07 = 2^-7 / 5^7, rounded.
EpsilonPow5 == 78125

\* No stability term.
NoEpsilon == FZero

FEpsilon == RndRat(1, EpsilonPow5, -7)

\* The function f on 1..n as the sequence of its values.
Values(f) == SubSeq(f, 1, Len(f))

\* K.sum over one axis: the entries added left to right.
RECURSIVE FSumTo(_, _)
FSumTo(f, n) == IF n = 0 THEN FZero ELSE FAdd(FSumTo(f, n - 1), f[n])

FSum(f) == FSumTo(f, Len(f))

\* ------------------------------------------------------------- squash
\* squash(vectors, axis) on one vector of the squashed axis.
squash(v) ==
  LET s_squared_norm == FSum([k \in 1..Len(v) |-> FMul(v[k], v[k])])
      scale == FDiv(FDiv(s_squared_norm, FAdd(FOne, s_squared_norm)),
                    FSqrt(FAdd(s_squared_norm, FEpsilon)))
  IN [k \in 1..Len(v) |-> FMul(scale, v[k])]

\* ------------------------------------------------------- CapsuleLayer
BatchIx == 1..BatchSize
OutCaps == 1..NumCapsule
InCaps == 1..InputNumCapsule
PoseIx == 1..DimCapsule
InPoseIx == 1..InputDimCapsule

\* The initializer's draw for W, shape [num_capsule, input_num_capsule,
\* dim_capsule, input_dim_capsule]: multiples of 1/2 between -1 and 1.
WeightOf(seed) ==
  [j \in OutCaps |-> [i \in InCaps |-> [d \in PoseIx |-> [k \in InPoseIx |->
     Rnd(((seed * j + 2 * i + 3 * d + seed * k) % 5) - 2, -1)]]]]

\* An input batch, shape [batch, input_num_capsule, input_dim_capsule]:
\* integers between -2 and 2.
InputOf(n) ==
  [r \in BatchIx |-> [i \in InCaps |-> [k \in InPoseIx |->
     FromInt(((n * r + n * i + 2 * k + r * i) % 5) - 2)]]]

\* tf.matmul(self.W, x) mapped over the batch: the prediction of output
\* capsule j by input capsule i, [batch, num_capsule, input_num_capsule,
\* dim_capsule] (the trailing axis of size 1 is left out).
PredictionOf(w, x) ==
  [r \in BatchIx |-> [j \in OutCaps |-> [i \in InCaps |-> [d \in PoseIx |->
     FSum([k \in InPoseIx |-> FMul(w[j][i][d][k], x[r][i][k])])]]]]

\* tf.zeros(shape=[batch, num_capsule, input_num_capsule, 1, 1]).
ZeroLogits == [r \in BatchIx |-> [j \in OutCaps |-> [i \in InCaps |-> FZero]]]

\* Logits kept from the call before, as an attribute of the layer would be.
KeptLogits(old) == IF old = NoTensor THEN ZeroLogits ELSE old

\* line 195: b is made anew, whatever an earlier call left (old).
InitLogits(old) == ZeroLogits

\* The largest of f[1..n].
RECURSIVE FMaxTo(_, _)
FMaxTo(f, n) ==
  IF n = 1 THEN f[1]
  ELSE LET m == FMaxTo(f, n - 1) IN IF FLess(m, f[n]) THEN f[n] ELSE m

\* softmax of the vector f: exp(f - max f) / sum(exp(f - max f)).
SoftmaxVec(f) ==
  LET m == FMaxTo(f, Len(f))
      e == Values([n \in 1..Len(f) |-> FExp(FSub(f[n], m))])
      t == FSum(e)
  IN [n \in 1..Len(f) |-> FDiv(e[n], t)]

\* layers.Softmax(axis=2): over the input capsules of one output capsule.
SoftmaxInputAxis(logits) ==
  [r \in BatchIx |-> [j \in OutCaps |->
     SoftmaxVec([i \in InCaps |-> logits[r][j][i]])]]

\* layers.Softmax(axis=1)(b): over the output capsules, for each batch row
\* and each input capsule.
Softmax(logits) ==
  [r \in BatchIx |->
     LET col == Values([i \in InCaps |->
                   Values(SoftmaxVec([j \in OutCaps |-> logits[r][j][i]]))])
     IN [j \in OutCaps |-> [i \in InCaps |-> col[i][j]]]]

\* The weighted sum without the squash.
OutputsUnsquashed(coupling, hat) ==
  [r \in BatchIx |-> [j \in OutCaps |-> [d \in PoseIx |->
     FSum([i \in InCaps |-> FMul(coupling[r][j][i], hat[r][j][i][d])])]]]

\* squash(reduce_sum(multiply(c, inputs_hat), axis=2), axis=-2):
\* [batch, num_capsule, dim_capsule].
OutputsOf(coupling, hat) ==
  [r \in BatchIx |-> [j \in OutCaps |->
     squash(Values([d \in PoseIx |->
        FSum([i \in InCaps |-> FMul(coupling[r][j][i], hat[r][j][i][d])])]))]]

\* matmul(inputs_hat, tile(outputs), transpose_a=True): the dot product of
\* each prediction with the output of its output capsule.
AgreementOf(hat, out) ==
  [r \in BatchIx |-> [j \in OutCaps |-> [i \in InCaps |->
     FSum([d \in PoseIx |-> FMul(hat[r][j][i][d], out[r][j][d])])]]]

\* tf.add(b, agreement)
AddLogits(logits, agreement) ==
  [r \in BatchIx |-> [j \in OutCaps |-> [i \in InCaps |->
     FAdd(logits[r][j][i], agreement[r][j][i])]]]

\* A loop that updates the logits after every iteration, the last included.
UpdatesAfterEvery(t, r) == t < r

\* The test of line 216: the logits are updated after iteration t.
UpdatesAfter(t, r) == t < r - 1

\* An assertion that lets routings = 0 through.
RoutingsNotNegative(r) == r >= 0

\* The condition asserted at line 198.
RoutingsPositive(r) == r > 0

\* -------------------------------------------------------------- state
VARIABLES
  pc,          \* CapsuleLayer: none, constructed, idle, or a line of call
  routings,    \* self.routings
  assertsOn,   \* whether the interpreter executes assert statements
  W,           \* self.W
  inputs,      \* the argument of the running call
  inputs_hat,  \* locals of call
  b, c, outputs, i,
  result,      \* what the last finished call returned
  raised,      \* the exception that ended the last call, or None
  calls,       \* calls started on this layer
  iters,       \* this call: the loop indices of the iterations started
  bs,          \* this call: the logits each iteration started from
  outs,        \* this call: the output each iteration computed
  upds,        \* this call: whether each finished iteration updated the logits
  log          \* the finished calls: input, logits, outputs and result of each

cl_vars == <<pc, routings, assertsOn, W, inputs, inputs_hat, b, c, outputs, i,
             result, raised, calls, iters, bs, outs, upds, log>>

VARIABLES sq_in, sq_out, sq_pc           \* squash: argument, result, position

sq_vars == <<sq_in, sq_out, sq_pc>>

VARIABLES mk_in, mk_mask, mk_out, mk_pc  \* Mask.call: arguments, result

mk_vars == <<mk_in, mk_mask, mk_out, mk_pc>>

VARIABLES
  cb_num,      \* combine_images: generated_images.shape[0]
  cb_arg_height, cb_arg_width,   \* the arguments height and width
  cb_height, cb_width,           \* the grid
  cb_index,    \* the loop: images placed so far
  cb_image,    \* the grid's cells: the images written to each, in order
  cb_raised,   \* the exception that ended the call, or None
  cb_pc

cb_vars == <<cb_num, cb_arg_height, cb_arg_width, cb_height, cb_width,
             cb_index, cb_image, cb_raised, cb_pc>>

vars == <<cl_vars, sq_vars, mk_vars, cb_vars>>

\* ------------------------------------------- CapsuleLayer: the actions
Running == {"assert", "for", "softmax", "sum", "update", "squeeze"}

CapsInit ==
  /\ pc = "none"
  /\ routings = None
  /\ assertsOn \in BOOLEAN
  /\ W = NoTensor
  /\ inputs = NoTensor /\ inputs_hat = NoTensor
  /\ b = NoTensor /\ c = NoTensor /\ outputs = NoTensor /\ i = None
  /\ result = NoTensor /\ raised = None
  /\ calls = 0
  /\ iters = <<>> /\ bs = <<>> /\ outs = <<>> /\ upds = <<>>
  /\ log = <<>>

\* CapsuleLayer.__init__: the parameters are stored as given.
Construct(r) ==
  /\ pc = "none"
  /\ routings' = r
  /\ pc' = "constructed"
  /\ UNCHANGED <<assertsOn, W, inputs, inputs_hat, b, c, outputs, i, result,
                 raised, calls, iters, bs, outs, upds, log>>
  /\ UNCHANGED <<sq_vars, mk_vars, cb_vars>>

\* CapsuleLayer.build, run by Keras before the first call: W is drawn.
Build(seed) ==
  /\ pc = "constructed"
  /\ W' = WeightOf(seed)
  /\ pc' = "idle"
  /\ UNCHANGED <<routings, assertsOn, inputs, inputs_hat, b, c, outputs, i,
                 result, raised, calls, iters, bs, outs, upds, log>>
  /\ UNCHANGED <<sq_vars, mk_vars, cb_vars>>

\* call, lines 176-196: the predictions and the zero logits.
CallEnter(n) ==
  /\ pc = "idle"
  /\ calls < MaxCalls
  /\ calls' = calls + 1
  /\ inputs' = InputOf(n)
  /\ inputs_hat' = PredictionOf(W, InputOf(n))
  /\ b' = InitLogits(b)
  /\ c' = NoTensor /\ outputs' = NoTensor /\ i' = None
  /\ result' = NoTensor /\ raised' = None
  /\ iters' = <<>> /\ bs' = <<>> /\ outs' = <<>> /\ upds' = <<>>
  /\ pc' = "assert"
  /\ UNCHANGED <<routings, assertsOn, W, log>>
  /\ UNCHANGED <<sq_vars, mk_vars, cb_vars>>

\* line 198: assert self.routings > 0
AssertRoutings ==
  /\ pc = "assert"
  /\ IF assertsOn /\ ~RoutingsPositive(routings)
     THEN pc' = "idle" /\ raised' = "AssertionError"
     ELSE pc' = "for" /\ UNCHANGED raised
  /\ UNCHANGED <<routings, assertsOn, W, inputs, inputs_hat, b, c, outputs, i,
                 result, calls, iters, bs, outs, upds, log>>
  /\ UNCHANGED <<sq_vars, mk_vars, cb_vars>>

\* line 199: for i in range(self.routings)
ForNext ==
  /\ pc = "for"
  /\ IF Len(iters) < routings
     THEN /\ i' = Len(iters)
          /\ iters' = Append(iters, Len(iters))
          /\ bs' = Append(bs, b)
          /\ pc' = "softmax"
     ELSE /\ pc' = "squeeze"
          /\ UNCHANGED <<i, iters, bs>>
  /\ UNCHANGED <<routings, assertsOn, W, inputs, inputs_hat, b, c, outputs,
                 result, raised, calls, outs, upds, log>>
  /\ UNCHANGED <<sq_vars, mk_vars, cb_vars>>

\* line 202: c = layers.Softmax(axis=1)(b)
StepSoftmax ==
  /\ pc = "softmax"
  /\ c' = Softmax(b)
  /\ pc' = "sum"
  /\ UNCHANGED <<routings, assertsOn, W, inputs, inputs_hat, b, outputs, i,
                 result, raised, calls, iters, bs, outs, upds, log>>
  /\ UNCHANGED <<sq_vars, mk_vars, cb_vars>>

\* The weighted predictions written back to inputs_hat.
StepOutputsInPlace ==
  /\ pc = "sum"
  /\ inputs_hat' = [r \in BatchIx |-> [j \in OutCaps |-> [n \in InCaps |->
                      [d \in PoseIx |-> FMul(c[r][j][n], inputs_hat[r][j][n][d])]]]]
  /\ outputs' = OutputsOf(c, inputs_hat)
  /\ outs' = Append(outs, OutputsOf(c, inputs_hat))
  /\ pc' = "update"
  /\ UNCHANGED <<routings, assertsOn, W, inputs, b, c, i, result,
                 raised, calls, iters, bs, upds, log>>
  /\ UNCHANGED <<sq_vars, mk_vars, cb_vars>>

\* lines 212-214: outputs = squash(reduce_sum(multiply(c, inputs_hat)))
StepOutputs ==
  /\ pc = "sum"
  /\ outputs' = OutputsOf(c, inputs_hat)
  /\ outs' = Append(outs, OutputsOf(c, inputs_hat))
  /\ pc' = "update"
  /\ UNCHANGED <<routings, assertsOn, W, inputs, inputs_hat, b, c, i, result,
                 raised, calls, iters, bs, upds, log>>
  /\ UNCHANGED <<sq_vars, mk_vars, cb_vars>>

\* lines 216-224: if i < self.routings - 1: b = tf.add(b, agreement)
StepUpdate ==
  /\ pc = "update"
  /\ IF UpdatesAfter(i, routings)
     THEN b' = AddLogits(b, AgreementOf(inputs_hat, outputs))
     ELSE UNCHANGED b
  /\ upds' = Append(upds, UpdatesAfter(i, routings))
  /\ pc' = "for"
  /\ UNCHANGED <<routings, assertsOn, W, inputs, inputs_hat, c, outputs, i,
                 result, raised, calls, iters, bs, outs, log>>
  /\ UNCHANGED <<sq_vars, mk_vars, cb_vars>>

\* lines 230-231: outputs = tf.squeeze(outputs, [2, 4]); return outputs.
\* outputs is unbound when the loop body never ran.
Return ==
  /\ pc = "squeeze"
  /\ IF outputs = NoTensor
     THEN /\ raised' = "UnboundLocalError"
          /\ UNCHANGED <<result, log>>
     ELSE /\ result' = outputs
          /\ log' = Append(log, [x |-> inputs, bs |-> bs, outs |-> outs,
                                 result |-> outputs])
          /\ UNCHANGED raised
  /\ pc' = "idle"
  /\ UNCHANGED <<routings, assertsOn, W, inputs, inputs_hat, b, c, outputs, i,
                 calls, iters, bs, outs, upds>>
  /\ UNCHANGED <<sq_vars, mk_vars, cb_vars>>

\* The layer is not in use.
CapsOff ==
  /\ pc = "off" /\ routings = None /\ assertsOn = TRUE /\ W = NoTensor
  /\ inputs = NoTensor /\ inputs_hat = NoTensor
  /\ b = NoTensor /\ c = NoTensor /\ outputs = NoTensor /\ i = None
  /\ result = NoTensor /\ raised = None /\ calls = 0
  /\ iters = <<>> /\ bs = <<>> /\ outs = <<>> /\ upds = <<>> /\ log = <<>>

\* ------------------------------------------------------- squash alone
SquashInputs ==
  {[k \in PoseIx |-> Rnd(f[k], sh)] :
      f \in [PoseIx -> -MaxVal..MaxVal], sh \in -MaxShift..MaxShift}

SquashInit == sq_in \in SquashInputs /\ sq_out = NoTensor /\ sq_pc = "start"

SquashOff == sq_in = NoTensor /\ sq_out = NoTensor /\ sq_pc = "off"

SquashCall ==
  /\ sq_pc = "start"
  /\ sq_out' = squash(sq_in)
  /\ sq_pc' = "done"
  /\ UNCHANGED sq_in
  /\ UNCHANGED <<cl_vars, mk_vars, cb_vars>>

\* ---------------------------------------------------------------- Mask
\* K.argmax(x, 1) on one row: the first index holding the largest value.
RECURSIVE ArgmaxTo(_, _)
ArgmaxTo(x, n) ==
  IF n = 1 THEN 1
  ELSE LET m == ArgmaxTo(x, n - 1) IN IF FLess(x[m], x[n]) THEN n ELSE m

\* The last index holding the largest value.
RECURSIVE ArgmaxLastTo(_, _)
ArgmaxLastTo(x, n) ==
  IF n = 1 THEN 1
  ELSE LET m == ArgmaxLastTo(x, n - 1) IN IF FLeq(x[m], x[n]) THEN n ELSE m

ArgmaxLast(x) == ArgmaxLastTo(x, Len(x))

Argmax(x) == ArgmaxTo(x, Len(x))

\* K.one_hot(indices, num_classes) on one row (indices count from 1 here).
OneHot(k, n) == [j \in 1..n |-> IF j = k THEN FOne ELSE FZero]

\* K.sqrt(K.sum(K.square(inputs), -1)) on one row: the length of each of
\* its capsules.
RECURSIVE LengthsTo(_, _)
LengthsTo(row, n) ==
  IF n = 0 THEN <<>>
  ELSE Append(LengthsTo(row, n - 1),
              FSqrt(FSum([d \in 1..Len(row[n]) |-> FMul(row[n][d], row[n][d])])))

\* lines 56-59: the mask of the capsule of greatest length in each row.
LengthMask(t) ==
  [r \in 1..Len(t) |->
     LET x == LengthsTo(t[r], Len(t[r]))
     IN OneHot(Argmax(x), Len(x))]

\* A flattening that runs through the capsules first, then the pose.
MaskedFlatPoseMajor(t, mask) ==
  [r \in 1..Len(t) |->
     [n \in 1..(Len(t[r]) * Len(t[r][1])) |->
        LET j == ((n - 1) % Len(t[r])) + 1
            d == ((n - 1) \div Len(t[r])) + 1
        IN FMul(t[r][j][d], mask[r][j])]]

\* K.batch_flatten(inputs * K.expand_dims(mask, -1)): entry d of capsule j
\* lands at (j - 1) * dim_capsule + d of its row.
MaskedFlat(t, mask) ==
  [r \in 1..Len(t) |->
     [n \in 1..(Len(t[r]) * Len(t[r][1])) |->
        LET j == ((n - 1) \div Len(t[r][1])) + 1
            d == ((n - 1) % Len(t[r][1])) + 1
        IN FMul(t[r][j][d], mask[r][j])]]

\* Mask.call: inputs is [tensor, mask] when mask is given, else the tensor.
MaskCallOf(t, mask) ==
  IF mask # NoTensor THEN MaskedFlat(t, mask) ELSE MaskedFlat(t, LengthMask(t))

CapsVecs ==
  {[d \in PoseIx |-> FromInt(IF d = 1 THEN a ELSE z)] :
      a \in {-1, 0, 1}, z \in {0, 1}}

\* A capsule tensor [batch, num_capsule, dim_capsule]: row r holds the
\* capsules of row 1 moved r - 1 places on.
MaskInputs ==
  {[r \in BatchIx |-> [j \in OutCaps |-> row[((j + r - 2) % NumCapsule) + 1]]] :
      row \in [OutCaps -> CapsVecs]}

\* The one-hot codes of the labels of a batch: row r is labelled with the
\* class r - 1 places after the class y of row 1.
MaskLabels ==
  {[r \in BatchIx |-> OneHot(((y + r - 2) % NumCapsule) + 1, NumCapsule)] :
      y \in OutCaps}

MaskInit ==
  /\ mk_in \in MaskInputs
  /\ mk_mask \in MaskLabels \cup {NoTensor}
  /\ mk_out = NoTensor
  /\ mk_pc = "start"

MaskOff ==
  mk_in = NoTensor /\ mk_mask = NoTensor /\ mk_out = NoTensor /\ mk_pc = "off"

MaskCall ==
  /\ mk_pc = "start"
  /\ mk_out' = MaskCallOf(mk_in, mk_mask)
  /\ mk_pc' = "done"
  /\ UNCHANGED <<mk_in, mk_mask>>
  /\ UNCHANGED <<cl_vars, sq_vars, cb_vars>>

\* ------------------------------------------------------ combine_images
\* An optional argument: <<>> for None, <<k>> for the integer k.
Given(arg) == arg # <<>>

\* int(math.sqrt(num))
ISqrt(n) == ISqrtBits(n, 0, BitLen(n))

\* The quotient rounded down.
FloorDiv(n, k) == n \div k

\* int(math.ceil(float(num) / k)), for k # 0
CeilDiv(n, k) == (n + k - 1) \div k

\* lines 331-337: whether a division by a given 0 raises ZeroDivisionError.
GridRaises(height, width) ==
  \/ Given(width) /\ ~Given(height) /\ width[1] = 0
  \/ Given(height) /\ ~Given(width) /\ height[1] = 0

\* lines 331-337: the grid <<height, width>> from the arguments.
GridOf(num, height, width) ==
  IF ~Given(width) /\ ~Given(height)
  THEN <<CeilDiv(num, ISqrt(num)), ISqrt(num)>>
  ELSE IF Given(width) /\ ~Given(height)
  THEN <<CeilDiv(num, width[1]), width[1]>>
  ELSE IF Given(height) /\ ~Given(width)
  THEN <<height[1], CeilDiv(num, height[1])>>
  ELSE <<height[1], width[1]>>

\* lines 343-344: the cell <<row, column>> of image number index.
CellOf(index, width) == <<index \div width, index % width>>

Sides == {<<>>} \cup {<<k>> : k \in 0..MaxSide}

CombineInit ==
  /\ cb_num \in 1..MaxNum
  /\ cb_arg_height \in Sides
  /\ cb_arg_width \in Sides
  /\ cb_height = 0 /\ cb_width = 0
  /\ cb_index = 0
  /\ cb_image = <<>>
  /\ cb_raised = None
  /\ cb_pc = "start"

CombineOff ==
  /\ cb_num = 0 /\ cb_arg_height = <<>> /\ cb_arg_width = <<>>
  /\ cb_height = 0 /\ cb_width = 0 /\ cb_index = 0
  /\ cb_image = <<>> /\ cb_raised = None /\ cb_pc = "off"

\* lines 330-341: the grid, and the image of zeros: no cell written yet.
CombineEnter ==
  /\ cb_pc = "start"
  /\ IF GridRaises(cb_arg_height, cb_arg_width)
     THEN /\ cb_raised' = "ZeroDivisionError"
          /\ cb_pc' = "done"
          /\ UNCHANGED <<cb_height, cb_width, cb_image>>
     ELSE /\ cb_height' = GridOf(cb_num, cb_arg_height, cb_arg_width)[1]
          /\ cb_width' = GridOf(cb_num, cb_arg_height, cb_arg_width)[2]
          /\ cb_image' = [cell \in (0..(cb_height' - 1)) \X (0..(cb_width' - 1))
                            |-> <<>>]
          /\ cb_pc' = "loop"
          /\ UNCHANGED cb_raised
  /\ UNCHANGED <<cb_num, cb_arg_height, cb_arg_width, cb_index>>
  /\ UNCHANGED <<cl_vars, sq_vars, mk_vars>>

\* lines 342-346: one turn of the loop: image number cb_index is written to
\* its cell.  index / 0 raises ZeroDivisionError, and an image whose cell
\* lies outside the grid cannot be assigned: numpy raises ValueError.
CombinePlace ==
  /\ cb_pc = "loop"
  /\ cb_index < cb_num
  /\ IF cb_width = 0
     THEN /\ cb_raised' = "ZeroDivisionError"
          /\ cb_pc' = "done"
          /\ UNCHANGED <<cb_image, cb_index>>
     ELSE IF CellOf(cb_index, cb_width) \in DOMAIN cb_image
     THEN /\ cb_image' = [cb_image EXCEPT ![CellOf(cb_index, cb_width)] =
                                             Append(@, cb_index)]
          /\ cb_index' = cb_index + 1
          /\ UNCHANGED <<cb_raised, cb_pc>>
     ELSE /\ cb_raised' = "ValueError"
          /\ cb_pc' = "done"
          /\ UNCHANGED <<cb_image, cb_index>>
  /\ UNCHANGED <<cb_num, cb_arg_height, cb_arg_width, cb_height, cb_width>>
  /\ UNCHANGED <<cl_vars, sq_vars, mk_vars>>

\* line 347: return image
CombineReturn ==
  /\ cb_pc = "loop"
  /\ cb_index = cb_num
  /\ cb_pc' = "done"
  /\ UNCHANGED <<cb_num, cb_arg_height, cb_arg_width, cb_height, cb_width,
                 cb_index, cb_image, cb_raised>>
  /\ UNCHANGED <<cl_vars, sq_vars, mk_vars>>

\* ------------------------------------------------------ specifications
\* The capsule layer: construction, build and forward passes.
Init == CapsInit /\ SquashOff /\ MaskOff /\ CombineOff

Next ==
  \/ \E r \in 0..MaxRoutings : Construct(r)
  \/ \E seed \in 1..NumSeeds : Build(seed)
  \/ \E n \in 1..NumInputs : CallEnter(n)
  \/ AssertRoutings
  \/ ForNext
  \/ StepSoftmax
  \/ StepOutputs
  \/ StepUpdate
  \/ Return

Spec == Init /\ [][Next]_vars

\* squash applied to one vector.
InitSquash == SquashInit /\ CapsOff /\ MaskOff /\ CombineOff

NextSquash == SquashCall

SpecSquash == InitSquash /\ [][NextSquash]_vars

\* Mask.call applied to one batch.
InitMask == MaskInit /\ CapsOff /\ SquashOff /\ CombineOff

NextMask == MaskCall

SpecMask == InitMask /\ [][NextMask]_vars

\* combine_images.
InitCombine == CombineInit /\ CapsOff /\ SquashOff /\ MaskOff

NextCombine == CombineEnter \/ CombinePlace \/ CombineReturn

SpecCombine == InitCombine /\ [][NextCombine]_vars

\* --------------------------------------------------------------- claims
\* A call of the layer has returned (result is reset when a call starts).
Returned == pc = "idle" /\ result # NoTensor

\* The logits iteration number t (counted from 1) left behind.
LogitsAfter(t) == IF t < Len(bs) THEN bs[t + 1] ELSE b

\* C1: in a forward pass with routings = R >= 1 the iterations run with
\* i = 0, 1, ..., R-1 in this order; each computes the coupling
\* coefficients and then the output from the logits it started from; the
\* logits are updated after iteration t exactly when t < R-1; and the value
\* returned is the output of iteration R-1.
C1_RoutingLoop ==
  (pc \in Running \cup {"idle"} /\ routings >= 1) =>
     /\ Len(iters) <= routings
     /\ \A t \in 1..Len(iters) : iters[t] = t - 1
     /\ Len(bs) = Len(iters) /\ Len(upds) <= Len(outs) /\ Len(outs) <= Len(bs)
     /\ pc = "sum" => c = Softmax(b) /\ b = bs[Len(bs)]
     /\ pc = "update" =>
          /\ b = bs[Len(bs)]
          /\ c = Softmax(b)
          /\ outputs = OutputsOf(c, inputs_hat)
          /\ outs[Len(outs)] = outputs
     /\ \A t \in 1..Len(upds) :
          /\ upds[t] = (iters[t] < routings - 1)
          /\ ~upds[t] => LogitsAfter(t) = bs[t]
     /\ (pc = "for" /\ upds # <<>> /\ Len(upds) < routings) =>
          b = AddLogits(bs[Len(bs)], AgreementOf(inputs_hat, outs[Len(outs)]))
     /\ Returned =>
          /\ iters = [t \in 1..routings |-> t - 1]
          /\ Len(upds) = routings
          /\ Cardinality({t \in 1..routings : upds[t]}) = routings - 1
          /\ result = outs[routings]

\* C1 witness: a pass of at least two iterations has returned, and its
\* first update changed the logits.
C1_Witness == Returned /\ routings >= 2 /\ bs[2] # bs[1]

\* One ulp-scaled tolerance: n units of 2^-Prec.
Units(n) == Rnd(n, -Prec)

\* |a - 1| <= tol
NearOne(a, tol) == FLeq(FSub(a, FOne), tol) /\ FLeq(FSub(FOne, a), tol)

\* C2: in every iteration, for every batch row and every input capsule i,
\* the coupling coefficients c[j, i] summed over the output capsules j are
\* 1, within the rounding of the num_capsule divisions and additions.
C2_CouplingSumsToOne ==
  c # NoTensor =>
     \A r \in BatchIx : \A n \in InCaps :
        NearOne(FSum([j \in OutCaps |-> c[r][j][n]]), Units(2 * NumCapsule))

\* C2 witness: coupling coefficients of a later iteration, no longer uniform.
C2_Witness ==
  /\ pc = "sum" /\ Len(iters) >= 2
  /\ \E r \in BatchIx : \E n \in InCaps : c[r][1][n] # c[r][2][n]

\* C5 as claimed: a layer with routings <= 0 is rejected at construction,
\* so no layer with routings <= 0 is ever constructed.
C5_RejectedAtConstruction == pc # "none" => routings > 0

\* C5 amended: a layer with routings <= 0 is constructed and built, and
\* every call of it fails before the first routing iteration: at the
\* assertion of line 198, or, with assertions off, at line 230 where
\* outputs is unbound.  No iteration runs and nothing is returned.
C5_RejectedInCall ==
  (pc # "none" /\ routings <= 0) =>
     /\ iters = <<>> /\ outs = <<>>
     /\ c = NoTensor /\ outputs = NoTensor
     /\ result = NoTensor /\ log = <<>>
     /\ pc \in {"constructed", "idle", "assert", "for", "squeeze"}
     /\ pc \in {"for", "squeeze"} => ~assertsOn
     /\ (pc = "idle" /\ calls > 0) =>
          raised = (IF assertsOn THEN "AssertionError" ELSE "UnboundLocalError")

\* C5 witness: a call of a layer with routings = 0 has ended in the
\* assertion error.
C5_Witness ==
  pc = "idle" /\ routings = 0 /\ calls > 0 /\ raised = "AssertionError"

\* C6: every forward pass starts from all-zero logits, whatever the calls
\* before it left, and two finished calls of the layer on the same input
\* went through the same logits and returned the same output.
C6_LogitsPerCall ==
  /\ pc = "assert" => b = ZeroLogits
  /\ (pc \in Running /\ bs # <<>>) => bs[1] = ZeroLogits
  /\ \A p \in 1..Len(log) : \A q \in 1..Len(log) :
        log[p].x = log[q].x =>
           /\ log[p].bs = log[q].bs
           /\ log[p].outs = log[q].outs
           /\ log[p].result = log[q].result

\* C6 witness: a second call is starting after a call that left logits
\* that are not zero.
C6_Witness ==
  /\ pc = "for" /\ calls = 2 /\ Len(log) = 1 /\ bs = <<>>
  /\ Len(log[1].bs) >= 2 /\ log[1].bs[2] # ZeroLogits

\* C7: from one step of a forward pass to the next, W and inputs_hat do not
\* change (only b, c and outputs do, and the loop's position).
C7_WeightsAndPredictionsFixed ==
  [][(pc \in Running /\ pc' \in Running \cup {"idle"}) =>
        /\ W' = W /\ inputs_hat' = inputs_hat
        /\ inputs' = inputs /\ routings' = routings]_vars

\* C7 witness: a pass is in its second iteration; its logits and its
\* coupling coefficients have changed since the first.
C7_Witness ==
  /\ pc = "update" /\ Len(iters) = 2
  /\ b # ZeroLogits /\ c # Softmax(ZeroLogits)

\* The coupling 1 / num_capsule of every pair of capsules.
UniformCoupling ==
  [r \in BatchIx |-> [j \in OutCaps |-> [n \in InCaps |->
     FDiv(FOne, FromInt(NumCapsule))]]]

\* C8: with routings = 1 the logits are never updated, and the value
\* returned is, for every output capsule j, the squash of the sum over the
\* input capsules of (1 / num_capsule) * prediction[j, i].
C8_SingleIteration ==
  (Returned /\ routings = 1) =>
     /\ upds = <<FALSE>>
     /\ b = ZeroLogits
     /\ \A r \in BatchIx : \A j \in OutCaps :
          result[r][j] =
            squash([d \in PoseIx |->
               FSum([n \in InCaps |->
                  FMul(UniformCoupling[r][j][n], inputs_hat[r][j][n][d])])])

\* C8 witness: a pass with routings = 1 has returned capsules that are not
\* all zero.
C8_Witness ==
  /\ Returned /\ routings = 1
  /\ \E r \in BatchIx : \E j \in OutCaps : \E d \in PoseIx :
        result[r][j][d] # FZero

ZeroVector == [k \in PoseIx |-> FZero]

\* The least exponent among the entries of v that are not zero.
RECURSIVE MinExpTo(_, _)
MinExpTo(v, n) ==
  IF n = 0 THEN 0
  ELSE LET e == MinExpTo(v, n - 1) IN
       IF v[n][1] # 0 /\ (v[n][2] < e \/ \A k \in 1..(n - 1) : v[k][1] = 0)
       THEN v[n][2] ELSE e

\* The squared norm of v, exactly, in units of 4^e.
RECURSIVE SqSumTo(_, _, _)
SqSumTo(v, e, n) ==
  IF n = 0 THEN 0
  ELSE SqSumTo(v, e, n - 1)
         + (v[n][1] * Pow2(v[n][2] - e)) * (v[n][1] * Pow2(v[n][2] - e))

Finite(v) == \A k \in 1..Len(v) : ~IsNaN(v[k])

\* ||v||^2 < 1, exactly.
NormBelowOne(v) ==
  /\ Finite(v)
  /\ MinExpTo(v, Len(v)) <= 0
  /\ SqSumTo(v, MinExpTo(v, Len(v)), Len(v)) < Pow2(-2 * MinExpTo(v, Len(v)))

\* ||v||^2 <= 1 + n * 2^-Prec, exactly.
NormWithin(v, n) ==
  /\ Finite(v)
  /\ MinExpTo(v, Len(v)) <= 0
  /\ SqSumTo(v, MinExpTo(v, Len(v)), Len(v)) * Pow2(Prec)
       <= Pow2(-2 * MinExpTo(v, Len(v))) * (Pow2(Prec) + n)

NormOf(v) == FSqrt(FSum([k \in 1..Len(v) |-> FMul(v[k], v[k])]))

\* The capsule a one-hot row selects.
Selected(row) == CHOOSE k \in 1..Len(row) : row[k] = FOne

\* C4: given a one-hot label selecting capsule k, the flattened output has
\* num_capsule * dim_capsule entries per row; the entries of capsule k,
\* at (k-1) * dim_capsule + 1 .. k * dim_capsule counting from 1, are its
\* pose vector, and every other entry is zero.
C4_MaskByLabel ==
  (mk_pc = "done" /\ mk_mask # NoTensor) =>
     \A r \in BatchIx :
        LET k == Selected(mk_mask[r]) IN
        /\ Len(mk_out[r]) = NumCapsule * DimCapsule
        /\ \A j \in OutCaps : \A d \in PoseIx :
              mk_out[r][(j - 1) * DimCapsule + d] =
                 IF j = k THEN mk_in[r][j][d] ELSE FZero

\* C4 witness: a labelled call where the selected capsule is not zero and a
\* capsule that is not selected is not zero either.
C4_Witness ==
  /\ mk_pc = "done" /\ mk_mask # NoTensor
  /\ \E r \in BatchIx : \E j \in OutCaps :
        /\ j # Selected(mk_mask[r])
        /\ mk_in[r][j] # ZeroVector
        /\ mk_in[r][Selected(mk_mask[r])] # ZeroVector

\* The lowest position holding the greatest of the lengths x.
LowestOfGreatest(x) ==
  CHOOSE k \in 1..Len(x) :
     /\ \A j \in 1..Len(x) : FLeq(x[j], x[k])
     /\ \A j \in 1..(k - 1) : FLess(x[j], x[k])

\* The lowest position holding a capsule of the greatest length in a row.
LowestLongest(row) == LowestOfGreatest(LengthsTo(row, Len(row)))

\* C9: without a label, Mask.call keeps in each row the capsule at the
\* lowest position of greatest length and zeroes every other capsule: its
\* output is that of the labelled call with the one-hot code of that
\* position.
C9_MaskByLength ==
  (mk_pc = "done" /\ mk_mask = NoTensor) =>
     \A r \in BatchIx :
        LET k == LowestLongest(mk_in[r]) IN
        /\ mk_out[r] =
              MaskedFlat(mk_in, [q \in BatchIx |-> OneHot(k, NumCapsule)])[r]
        /\ \A j \in OutCaps : \A d \in PoseIx :
              mk_out[r][(j - 1) * DimCapsule + d] =
                 IF j = k THEN mk_in[r][j][d] ELSE FZero

\* C9 witness: an unlabelled call on a row where two capsules tie for the
\* greatest length, which is not zero.
C9_Witness ==
  /\ mk_pc = "done" /\ mk_mask = NoTensor
  /\ \E r \in BatchIx : \E j \in OutCaps :
        /\ j > LowestLongest(mk_in[r])
        /\ NormOf(mk_in[r][j]) = NormOf(mk_in[r][LowestLongest(mk_in[r])])
        /\ mk_in[r][j] # ZeroVector

\* At most one of height and width is given, and it is at least 1.
OneSideAtMost ==
  /\ ~(Given(cb_arg_height) /\ Given(cb_arg_width))
  /\ Given(cb_arg_height) => cb_arg_height[1] >= 1
  /\ Given(cb_arg_width) => cb_arg_width[1] >= 1

\* C10: with at most one of height and width given, the grid has room for
\* every image, height * width >= num, and image number index is written
\* to the cell (index div width, index mod width), which lies in the grid
\* and holds no other image: no image is dropped or overwritten.
C10_GridHoldsEveryImage ==
  (OneSideAtMost /\ cb_pc # "start") =>
     /\ cb_raised = None
     /\ cb_height * cb_width >= cb_num
     /\ \A n \in 0..(cb_index - 1) :
           /\ n \div cb_width < cb_height /\ n % cb_width < cb_width
           /\ cb_image[<<n \div cb_width, n % cb_width>>] = <<n>>
     /\ \A cell \in DOMAIN cb_image : Len(cb_image[cell]) <= 1
     /\ cb_pc = "done" => cb_index = cb_num

\* C10 witness: combine_images has returned a grid of several rows and
\* columns whose last row is not full.
C10_Witness ==
  /\ cb_pc = "done" /\ OneSideAtMost /\ cb_raised = None
  /\ cb_height >= 2 /\ cb_width >= 2
  /\ cb_height * cb_width > cb_num
=============================================================================
